---- MODULE Spec2Model ----
(***************************************************************************)
(* Model of gbhv/vmx.c: fixed-bit enforcement on CR0/CR4, entry into and   *)
(* exit from VMX root operation, and the translation of an OS segment      *)
(* descriptor into the VMX segment layout.                                 *)
(*                                                                         *)
(* A register or flag word is modelled as the set of the positions of its  *)
(* 1-bits (a subset of 0..63): `|` is \cup, `&` is \cap, and a left shift  *)
(* adds to every position.  The representation is exact for 64-bit words.  *)
(***************************************************************************)
EXTENDS Integers, Sequences, FiniteSets, TLC

\* ------------------------------------------------------------------ bounds
\* Number of calls the caller makes into this file on one logical processor.
MaxCalls == 2

\* Highest descriptor-table slot a selector may index.
MaxGdtIndex == 1

\* ------------------------------------------------------------------- words
WordBits == 0..63

\* CR4.VMXE, the VMX-enable bit (bit 13 of CR4).
VmxeBit == 13

\* Bit positions of CR0 and CR4 whose live value and capability masks vary.
\* CR0.PE (bit 0); CR4.PAE (bit 5) and CR4.VMXE (bit 13).
Cr0Tracked == {0}
Cr4Tracked == {5, VmxeBit}

MsrNames == {"IA32_VMX_CR0_FIXED0", "IA32_VMX_CR0_FIXED1",
             "IA32_VMX_CR4_FIXED0", "IA32_VMX_CR4_FIXED1"}

\* Status returned by the __vmx_on / __vmx_vmclear / __vmx_vmptrld
\* intrinsics: 0 success, 1 failure with status, 2 failure without status.
VmxStatus == {0, 1, 2}

VARIABLES
    cr0,            \* live CR0 of the executing processor
    cr4,            \* live CR4 of the executing processor
    msr,            \* the four VMX fixed-bit capability MSRs
    vmxOperation,   \* TRUE while the processor is in VMX operation
    routine,        \* routine of this file being (or last) executed
    pc,             \* position inside `routine`
    ControlRegister0, \* local of VmxSetFixedBits as read at line 15
    ControlRegister4, \* local of VmxSetFixedBits as read at line 16
    issued,         \* privileged operations executed by the current call, in order
    ret,            \* value returned by the current call ("none" while running)
    returned,       \* the caller's record of completed calls
    GdtRegister,    \* descriptor table handed to the segment translator
    segIn,          \* arguments of the last segment translation
    VmxSegmentDescriptor  \* its output structure

vars == <<cr0, cr4, msr, vmxOperation, routine, pc, ControlRegister0,
          ControlRegister4, issued, ret, returned, GdtRegister, segIn,
          VmxSegmentDescriptor>>

segVars == <<GdtRegister, segIn, VmxSegmentDescriptor>>

\* --------------------------------------------------------- fixed-bit logic
\* Faulty variant of FixedBits: the masks applied in the opposite order.
FixedBitsAndFirst(live, fixed0, fixed1) == (live \cap fixed1) \cup fixed0

\* Flags |= FIXED0; Flags &= FIXED1;  -- the mask that is applied last wins.
FixedBits(live, fixed0, fixed1) == (live \cup fixed0) \cap fixed1

\* ArchEnableVmxe / ArchDisableVmxe: set / clear CR4.VMXE, nothing else.
ArchEnableVmxe(reg) == reg \cup {VmxeBit}

ArchDisableVmxe(reg) == reg \ {VmxeBit}

\* Faulty variant of SetFixedBitsBody: CR4 enforced with the CR0 masks.
SetFixedBitsCrossed ==
    /\ ControlRegister0' = cr0
    /\ ControlRegister4' = cr4
    /\ cr0' = FixedBits(cr0, msr["IA32_VMX_CR0_FIXED0"], msr["IA32_VMX_CR0_FIXED1"])
    /\ cr4' = FixedBits(cr4, msr["IA32_VMX_CR0_FIXED0"], msr["IA32_VMX_CR0_FIXED1"])

\* The register writes of VmxSetFixedBits (lines 15-28).
SetFixedBitsBody ==
    /\ ControlRegister0' = cr0
    /\ ControlRegister4' = cr4
    /\ cr0' = FixedBits(cr0, msr["IA32_VMX_CR0_FIXED0"], msr["IA32_VMX_CR0_FIXED1"])
    /\ cr4' = FixedBits(cr4, msr["IA32_VMX_CR4_FIXED0"], msr["IA32_VMX_CR4_FIXED1"])

CanCall == pc \in {"idle", "done"} /\ Len(returned) < MaxCalls

Range(s) == {s[i] : i \in 1..Len(s)}

Op(name, status) == [op |-> name, status |-> status]

Completed(name, value) == Append(returned, [routine |-> name, ret |-> value])

\* ---------------------------------------------------------- VmxSetFixedBits
VmxSetFixedBits ==
    /\ CanCall
    /\ SetFixedBitsBody
    /\ routine' = "VmxSetFixedBits"
    /\ pc' = "done"
    /\ issued' = <<Op("SETFIXED", 0)>>
    /\ ret' = "void"
    /\ returned' = Completed("VmxSetFixedBits", "void")
    /\ UNCHANGED <<msr, vmxOperation>>
    /\ UNCHANGED segVars

\* Faulty variant of EnterEnableVmxe: the call of ArchEnableVmxe left out.
EnterEnableVmxeSkipped ==
    /\ CanCall
    /\ routine' = "VmxEnterRootMode"
    /\ issued' = <<>>
    /\ ret' = "none"
    /\ pc' = "fixed"
    /\ UNCHANGED <<cr0, cr4, msr, vmxOperation, ControlRegister0, ControlRegister4, returned>>
    /\ UNCHANGED segVars

\* --------------------------------------------------------- VmxEnterRootMode
\* Line 44: ArchEnableVmxe().
EnterEnableVmxe ==
    /\ CanCall
    /\ routine' = "VmxEnterRootMode"
    /\ cr4' = ArchEnableVmxe(cr4)
    /\ issued' = <<Op("ENABLE_VMXE", 0)>>
    /\ ret' = "none"
    /\ pc' = "fixed"
    /\ UNCHANGED <<cr0, msr, vmxOperation, ControlRegister0, ControlRegister4, returned>>
    /\ UNCHANGED segVars

\* Line 47: VmxSetFixedBits().
EnterSetFixedBits ==
    /\ routine = "VmxEnterRootMode" /\ pc = "fixed"
    /\ SetFixedBitsBody
    /\ issued' = Append(issued, Op("SETFIXED", 0))
    /\ pc' = "vmxon"
    /\ UNCHANGED <<msr, vmxOperation, routine, ret, returned>>
    /\ UNCHANGED segVars

\* A failed instruction of VmxEnterRootMode / VmxExitRootMode: return FALSE.
Fail ==
    /\ ret' = FALSE
    /\ pc' = "done"
    /\ returned' = Completed(routine, FALSE)

\* Lines 53-57: __vmx_on.
EnterVmxOn ==
    /\ routine = "VmxEnterRootMode" /\ pc = "vmxon"
    /\ \E st \in VmxStatus :
         /\ issued' = Append(issued, Op("VMXON", st))
         /\ IF st # 0
              THEN Fail /\ UNCHANGED vmxOperation
              ELSE /\ vmxOperation' = TRUE
                   /\ pc' = "vmclear"
                   /\ UNCHANGED <<ret, returned>>
    /\ UNCHANGED <<cr0, cr4, msr, routine, ControlRegister0, ControlRegister4>>
    /\ UNCHANGED segVars

\* Faulty variant of EnterVmClear: the status of VMCLEAR ignored.
EnterVmClearIgnoreFailure ==
    /\ routine = "VmxEnterRootMode" /\ pc = "vmclear"
    /\ \E st \in VmxStatus : issued' = Append(issued, Op("VMCLEAR", st))
    /\ pc' = "vmptrld"
    /\ UNCHANGED <<ret, returned>>
    /\ UNCHANGED <<cr0, cr4, msr, vmxOperation, routine, ControlRegister0, ControlRegister4>>
    /\ UNCHANGED segVars

\* Lines 60-64: __vmx_vmclear.
EnterVmClear ==
    /\ routine = "VmxEnterRootMode" /\ pc = "vmclear"
    /\ \E st \in VmxStatus :
         /\ issued' = Append(issued, Op("VMCLEAR", st))
         /\ IF st # 0
              THEN Fail
              ELSE pc' = "vmptrld" /\ UNCHANGED <<ret, returned>>
    /\ UNCHANGED <<cr0, cr4, msr, vmxOperation, routine, ControlRegister0, ControlRegister4>>
    /\ UNCHANGED segVars

\* Faulty variant of EnterVmPtrLd: a failure undone with VMXOFF and ArchDisableVmxe.
EnterVmPtrLdRollback ==
    /\ routine = "VmxEnterRootMode" /\ pc = "vmptrld"
    /\ \E st \in VmxStatus :
         IF st # 0
           THEN /\ issued' = issued \o <<Op("VMPTRLD", st), Op("VMXOFF", 0),
                                         Op("DISABLE_VMXE", 0)>>
                /\ vmxOperation' = FALSE
                /\ cr4' = ArchDisableVmxe(cr4)
                /\ Fail
           ELSE /\ issued' = Append(issued, Op("VMPTRLD", st))
                /\ ret' = TRUE
                /\ pc' = "done"
                /\ returned' = Completed(routine, TRUE)
                /\ UNCHANGED <<cr4, vmxOperation>>
    /\ UNCHANGED <<cr0, msr, routine, ControlRegister0, ControlRegister4>>
    /\ UNCHANGED segVars

\* Lines 67-73: __vmx_vmptrld, then return TRUE.
EnterVmPtrLd ==
    /\ routine = "VmxEnterRootMode" /\ pc = "vmptrld"
    /\ \E st \in VmxStatus :
         /\ issued' = Append(issued, Op("VMPTRLD", st))
         /\ IF st # 0
              THEN Fail
              ELSE /\ ret' = TRUE
                   /\ pc' = "done"
                   /\ returned' = Completed(routine, TRUE)
    /\ UNCHANGED <<cr0, cr4, msr, vmxOperation, routine, ControlRegister0, ControlRegister4>>
    /\ UNCHANGED segVars

\* Faulty variant of ExitVmClear: teardown continuing past a failed VMCLEAR.
ExitVmClearContinue ==
    /\ CanCall
    /\ routine' = "VmxExitRootMode"
    /\ \E st \in VmxStatus :
         /\ issued' = <<Op("VMCLEAR", st)>>
         /\ ret' = "none"
         /\ pc' = "vmxoff"
         /\ UNCHANGED returned
    /\ UNCHANGED <<cr0, cr4, msr, vmxOperation, ControlRegister0, ControlRegister4>>
    /\ UNCHANGED segVars

\* ---------------------------------------------------------- VmxExitRootMode
\* Lines 87-91: __vmx_vmclear; a failure returns FALSE at once.
ExitVmClear ==
    /\ CanCall
    /\ routine' = "VmxExitRootMode"
    /\ \E st \in VmxStatus :
         /\ issued' = <<Op("VMCLEAR", st)>>
         /\ IF st # 0
              THEN /\ ret' = FALSE
                   /\ pc' = "done"
                   /\ returned' = Completed("VmxExitRootMode", FALSE)
              ELSE /\ ret' = "none"
                   /\ pc' = "vmxoff"
                   /\ UNCHANGED returned
    /\ UNCHANGED <<cr0, cr4, msr, vmxOperation, ControlRegister0, ControlRegister4>>
    /\ UNCHANGED segVars

\* Faulty variant of ExitVmxOff: the VMXOFF left out.
ExitVmxOffSkipped ==
    /\ routine = "VmxExitRootMode" /\ pc = "vmxoff"
    /\ pc' = "disable"
    /\ UNCHANGED <<cr0, cr4, msr, vmxOperation, routine, ControlRegister0,
                   ControlRegister4, issued, ret, returned>>
    /\ UNCHANGED segVars

\* Line 94: __vmx_off.
ExitVmxOff ==
    /\ routine = "VmxExitRootMode" /\ pc = "vmxoff"
    /\ issued' = Append(issued, Op("VMXOFF", 0))
    /\ vmxOperation' = FALSE
    /\ pc' = "disable"
    /\ UNCHANGED <<cr0, cr4, msr, routine, ControlRegister0, ControlRegister4, ret, returned>>
    /\ UNCHANGED segVars

\* Lines 97-99: ArchDisableVmxe(), then return TRUE.
ExitDisableVmxe ==
    /\ routine = "VmxExitRootMode" /\ pc = "disable"
    /\ cr4' = ArchDisableVmxe(cr4)
    /\ issued' = Append(issued, Op("DISABLE_VMXE", 0))
    /\ ret' = TRUE
    /\ pc' = "done"
    /\ returned' = Completed(routine, TRUE)
    /\ UNCHANGED <<cr0, msr, vmxOperation, routine, ControlRegister0, ControlRegister4>>
    /\ UNCHANGED segVars

\* ------------------------------------------------------------ specification
SegIdle ==
    /\ GdtRegister = <<>>
    /\ segIn = [called |-> FALSE]
    /\ VmxSegmentDescriptor = [called |-> FALSE]

Init ==
    /\ cr0 \in SUBSET Cr0Tracked
    /\ cr4 \in SUBSET Cr4Tracked
    /\ msr \in [MsrNames -> SUBSET (Cr0Tracked \cup Cr4Tracked)]
    /\ msr["IA32_VMX_CR0_FIXED0"] \subseteq Cr0Tracked
    /\ msr["IA32_VMX_CR0_FIXED1"] \subseteq Cr0Tracked
    /\ msr["IA32_VMX_CR4_FIXED0"] \subseteq Cr4Tracked
    /\ msr["IA32_VMX_CR4_FIXED1"] \subseteq Cr4Tracked
    /\ vmxOperation = FALSE
    /\ routine = "none"
    /\ pc = "idle"
    /\ ControlRegister0 = {}
    /\ ControlRegister4 = {}
    /\ issued = <<>>
    /\ ret = "none"
    /\ returned = <<>>
    /\ SegIdle

Next ==
    \/ VmxSetFixedBits
    \/ EnterEnableVmxe
    \/ EnterSetFixedBits
    \/ EnterVmxOn
    \/ EnterVmClear
    \/ EnterVmPtrLd
    \/ ExitVmClear
    \/ ExitVmxOff
    \/ ExitDisableVmxe

Spec == Init /\ [][Next]_vars

\* ---------------------------------------- VmxGetSegmentDescriptorFromSelector
\* OsZeroMemory of the access-rights word (line 116).
ZeroAccessRights ==
    [Type |-> 0, DescriptorType |-> 0, DescriptorPrivilegeLevel |-> 0,
     Present |-> 0, AvailableBit |-> 0, LongMode |-> 0, DefaultBig |-> 0,
     Granularity |-> 0, Unusable |-> 0]

\* SEGMENT_SELECTOR: RequestPrivilegeLevel in bits 0-1, Table in bit 2, Index
\* in bits 3-15 of the 16-bit Flags.
SelectorRPL(sel) == sel % 4

SelectorTable(sel) == (sel \div 4) % 2

SelectorIndex(sel) == sel \div 8

MakeSelector(index, table, rpl) == index * 8 + table * 4 + rpl

\* The 1-bits of a field value of the given width.
BitsOf(n, width) == {b \in 0..(width - 1) : (n \div (2 ^ b)) % 2 = 1}

\* The number a word holds (for words below 2^31).
RECURSIVE ValueOf(_)
ValueOf(w) == IF w = {} THEN 0
              ELSE LET b == CHOOSE x \in w : TRUE IN 2 ^ b + ValueOf(w \ {b})

\* `x << k` evaluated in 32-bit arithmetic, as C does for these operands.
ShiftLeft32(w, k) == {b + k : b \in w} \cap 0..31

\* Conversion of the 32-bit expression value to the 64-bit BaseAddress field:
\* a signed int with bit 31 set is sign-extended, an unsigned one is not.
WidenTo64(w, signedInt) == IF signedInt /\ 31 \in w THEN w \cup 32..63 ELSE w

\* Native descriptor field values read from the descriptor table: the base in
\* a 16-bit low, an 8-bit middle and an upper field (one upper sample, 511,
\* does not fit eight bits and is cut off by the 32-bit shift).
BaseTriples ==
    {<<low, middle, upper>> : low \in {0, 4660, 65535}, middle \in {0, 86, 255},
                              upper \in {0, 120, 128, 511}}

LimitPairs == {<<0, 0>>, <<43981, 3>>, <<65535, 15>>}

AccessSamples ==
    { [Type |-> 0, DescriptorType |-> 0, DescriptorPrivilegeLevel |-> 0, Present |-> 0,
       System |-> 0, LongMode |-> 0, DefaultBig |-> 0, Granularity |-> 0],
      [Type |-> 11, DescriptorType |-> 1, DescriptorPrivilegeLevel |-> 0, Present |-> 1,
       System |-> 0, LongMode |-> 1, DefaultBig |-> 0, Granularity |-> 1],
      [Type |-> 15, DescriptorType |-> 1, DescriptorPrivilegeLevel |-> 3, Present |-> 1,
       System |-> 1, LongMode |-> 1, DefaultBig |-> 1, Granularity |-> 1] }

OsDescriptor(base, limit, access) ==
    [BaseAddressLow |-> base[1], BaseAddressMiddle |-> base[2], BaseAddressUpper |-> base[3],
     SegmentLimitLow |-> limit[1], SegmentLimitHigh |-> limit[2],
     Type |-> access.Type, DescriptorType |-> access.DescriptorType,
     DescriptorPrivilegeLevel |-> access.DescriptorPrivilegeLevel,
     Present |-> access.Present, System |-> access.System, LongMode |-> access.LongMode,
     DefaultBig |-> access.DefaultBig, Granularity |-> access.Granularity]

OsDescriptors ==
    {OsDescriptor(b, l, a) : b \in BaseTriples, l \in LimitPairs, a \in AccessSamples}

FillerDescriptors ==
    {OsDescriptor(<<0, 0, 0>>, <<0, 0>>, a) : a \in AccessSamples}

\* Descriptor tables: one slot holds any sample descriptor, the others a filler.
GdtTables ==
    {[i \in 0..MaxGdtIndex |-> IF i = j THEN d ELSE e] :
        j \in 0..MaxGdtIndex, d \in OsDescriptors, e \in FillerDescriptors}

Selectors == {MakeSelector(i, t, r) : i \in 0..MaxGdtIndex, t \in {0, 1}, r \in {0, 3}}

\* Faulty variant of BaseAddress: the 32-bit mask of line 147 left out.
BaseAddressUnmasked(desc, signedInt) ==
    WidenTo64(ShiftLeft32(BitsOf(desc.BaseAddressUpper, 16), 24)
                \cup ShiftLeft32(BitsOf(desc.BaseAddressMiddle, 8), 16)
                \cup BitsOf(desc.BaseAddressLow, 16), signedInt)

\* Lines 140-147: base address from the three source fields, then the mask.
BaseAddress(desc, signedInt) ==
    WidenTo64(ShiftLeft32(BitsOf(desc.BaseAddressUpper, 16), 24)
                \cup ShiftLeft32(BitsOf(desc.BaseAddressMiddle, 8), 16)
                \cup BitsOf(desc.BaseAddressLow, 16), signedInt) \cap 0..31

\* Line 154: segment limit from its two source fields.
SegmentLimit(desc) ==
    (ShiftLeft32(BitsOf(desc.SegmentLimitHigh, 4), 16) \cup BitsOf(desc.SegmentLimitLow, 16))
        \cap 0..31

\* Faulty variant of AdjustSelector: the table indicator cleared with the RPL.
AdjustSelectorClearsTable(sel, clearRPL) ==
    IF clearRPL THEN MakeSelector(SelectorIndex(sel), 0, 0) ELSE sel

\* Lines 160-163: SegmentSelector.RequestPrivilegeLevel = 0 when ClearRPL.
AdjustSelector(sel, clearRPL) ==
    IF clearRPL THEN MakeSelector(SelectorIndex(sel), SelectorTable(sel), 0) ELSE sel

\* Lines 116-125: zero the output, then mark a null or non-GDT selector unusable.
SegClassify ==
    /\ pc \in {"idle", "done"}
    /\ \E sel \in Selectors, clearRPL \in BOOLEAN, signedInt \in BOOLEAN :
         /\ segIn' = [SegmentSelector |-> sel, ClearRPL |-> clearRPL, signedInt |-> signedInt]
         /\ VmxSegmentDescriptor' =
              [BaseAddress |-> {}, SegmentLimit |-> {}, Selector |-> 0,
               AccessRights |->
                 [ZeroAccessRights EXCEPT !.Unusable =
                    IF sel = 0 \/ SelectorTable(sel) # 0 THEN 1 ELSE 0]]
    /\ routine' = "VmxGetSegmentDescriptorFromSelector"
    /\ pc' = "index"
    /\ UNCHANGED <<cr0, cr4, msr, vmxOperation, ControlRegister0, ControlRegister4,
                   issued, ret, returned, GdtRegister>>

\* Lines 130-184 with the given value for the final write to Unusable.
Populate(unusable) ==
    LET OsSegmentDescriptor == GdtRegister[SelectorIndex(segIn.SegmentSelector)] IN
    [BaseAddress  |-> BaseAddress(OsSegmentDescriptor, segIn.signedInt),
     SegmentLimit |-> SegmentLimit(OsSegmentDescriptor),
     Selector     |-> AdjustSelector(segIn.SegmentSelector, segIn.ClearRPL),
     AccessRights |->
        [Type                     |-> OsSegmentDescriptor.Type,
         DescriptorType           |-> OsSegmentDescriptor.DescriptorType,
         DescriptorPrivilegeLevel |-> OsSegmentDescriptor.DescriptorPrivilegeLevel,
         Present                  |-> OsSegmentDescriptor.Present,
         AvailableBit             |-> OsSegmentDescriptor.System,
         LongMode                 |-> OsSegmentDescriptor.LongMode,
         DefaultBig               |-> OsSegmentDescriptor.DefaultBig,
         Granularity              |-> OsSegmentDescriptor.Granularity,
         Unusable                 |-> unusable]]

\* Faulty variant of SegPopulate: the final write of line 184 left out.
SegPopulateKeepsMark ==
    /\ routine = "VmxGetSegmentDescriptorFromSelector" /\ pc = "index"
    /\ VmxSegmentDescriptor' = Populate(VmxSegmentDescriptor.AccessRights.Unusable)
    /\ pc' = "done"
    /\ UNCHANGED <<cr0, cr4, msr, vmxOperation, routine, ControlRegister0, ControlRegister4,
                   issued, ret, returned, GdtRegister, segIn>>

\* Lines 130-184: read the descriptor, fill the output, mark it usable.
SegPopulate ==
    /\ routine = "VmxGetSegmentDescriptorFromSelector" /\ pc = "index"
    /\ VmxSegmentDescriptor' = Populate(0)
    /\ pc' = "done"
    /\ UNCHANGED <<cr0, cr4, msr, vmxOperation, routine, ControlRegister0, ControlRegister4,
                   issued, ret, returned, GdtRegister, segIn>>

InitSeg ==
    /\ cr0 = {}
    /\ cr4 = {}
    /\ msr = [m \in MsrNames |-> {}]
    /\ vmxOperation = FALSE
    /\ routine = "none"
    /\ pc = "idle"
    /\ ControlRegister0 = {}
    /\ ControlRegister4 = {}
    /\ issued = <<>>
    /\ ret = "none"
    /\ returned = <<>>
    /\ GdtRegister \in GdtTables
    /\ segIn = [called |-> FALSE]
    /\ VmxSegmentDescriptor = [called |-> FALSE]

NextSeg == SegClassify \/ SegPopulate

SpecSeg == InitSeg /\ [][NextSeg]_vars

\* ------------------------------------------------- properties: fixed bits
Fixed0(reg) == IF reg = "cr0" THEN msr["IA32_VMX_CR0_FIXED0"] ELSE msr["IA32_VMX_CR4_FIXED0"]

Fixed1(reg) == IF reg = "cr0" THEN msr["IA32_VMX_CR0_FIXED1"] ELSE msr["IA32_VMX_CR4_FIXED1"]

Live(reg) == IF reg = "cr0" THEN cr0 ELSE cr4

\* The state in which VmxSetFixedBits has just written CR0 and CR4.
AfterFixed ==
    \/ routine = "VmxSetFixedBits" /\ pc = "done"
    \/ routine = "VmxEnterRootMode" /\ pc = "vmxon"

\* The step that executes VmxSetFixedBits, on its own or inside VmxEnterRootMode.
FixedStep ==
    /\ <<issued, returned>>' # <<issued, returned>>
    /\ Len(issued') > 0
    /\ issued'[Len(issued')].op = "SETFIXED"

MustBeOneSet(reg) == \A b \in WordBits : b \in Fixed0(reg) => b \in Live(reg)

MustBeZeroClear(reg) == \A b \in WordBits : b \notin Fixed1(reg) => b \notin Live(reg)

\* C1 (as stated): whatever the masks, the value VmxSetFixedBits writes to CR0
\* and CR4 has every must-be-1 bit set and every bit outside may-be-1 clear.
C1_AllMasks ==
    AfterFixed => \A reg \in {"cr0", "cr4"} : MustBeOneSet(reg) /\ MustBeZeroClear(reg)

\* C1 (amended): the written value has every bit outside may-be-1 clear and
\* every must-be-1 bit that is also in may-be-1 set; a bit that is must-be-1
\* but absent from may-be-1 ends clear.
C1_MayBeOneWins ==
    AfterFixed =>
        \A reg \in {"cr0", "cr4"} : \A b \in WordBits :
            /\ b \notin Fixed1(reg) => b \notin Live(reg)
            /\ (b \in Fixed0(reg) /\ b \in Fixed1(reg)) => b \in Live(reg)

C1_Witness ==
    /\ AfterFixed
    /\ VmxeBit \in msr["IA32_VMX_CR4_FIXED0"]
    /\ VmxeBit \notin msr["IA32_VMX_CR4_FIXED1"]
    /\ VmxeBit \notin cr4
    /\ 5 \in msr["IA32_VMX_CR4_FIXED0"] /\ 5 \in msr["IA32_VMX_CR4_FIXED1"]
    /\ 5 \notin ControlRegister4 /\ 5 \in cr4

\* C2: a step of VmxSetFixedBits writes, bit for bit, (live | FIXED0) & FIXED1
\* of the register's own pair of masks to CR0 and to CR4, so a bit outside
\* FIXED0 and inside FIXED1 keeps its live value; the MSRs and the VMX
\* operation state are not written.
C2_FrameEffect ==
    [][FixedStep =>
        /\ \A b \in WordBits :
             /\ b \in cr0' <=> ((b \in cr0 \/ b \in msr["IA32_VMX_CR0_FIXED0"])
                                /\ b \in msr["IA32_VMX_CR0_FIXED1"])
             /\ b \in cr4' <=> ((b \in cr4 \/ b \in msr["IA32_VMX_CR4_FIXED0"])
                                /\ b \in msr["IA32_VMX_CR4_FIXED1"])
             /\ (b \notin msr["IA32_VMX_CR0_FIXED0"] /\ b \in msr["IA32_VMX_CR0_FIXED1"])
                    => (b \in cr0' <=> b \in cr0)
             /\ (b \notin msr["IA32_VMX_CR4_FIXED0"] /\ b \in msr["IA32_VMX_CR4_FIXED1"])
                    => (b \in cr4' <=> b \in cr4)
        /\ msr' = msr
        /\ vmxOperation' = vmxOperation]_vars

C2_Witness ==
    /\ AfterFixed
    /\ msr["IA32_VMX_CR0_FIXED0"] = {} /\ msr["IA32_VMX_CR0_FIXED1"] = {0}
    /\ ControlRegister0 = {0} /\ cr0 = {0}
    /\ msr["IA32_VMX_CR4_FIXED0"] = {5} /\ msr["IA32_VMX_CR4_FIXED1"] = {5}
    /\ ControlRegister4 = {VmxeBit} /\ cr4 = {5}

\* ------------------------------------------- properties: VmxEnterRootMode
VmxInstructions == {"VMXON", "VMCLEAR", "VMPTRLD", "VMXOFF"}

IsVmxInstruction(e) == e.op \in VmxInstructions

VmxOps(s) == SelectSeq(s, IsVmxInstruction)

EnterOrder == <<"VMXON", "VMCLEAR", "VMPTRLD">>

InEnter == routine = "VmxEnterRootMode"

InExit == routine = "VmxExitRootMode"

\* C3: VmxEnterRootMode issues VMXON, VMCLEAR, VMPTRLD in that order, each at
\* most once; a failed instruction is the last one issued and makes the
\* routine return FALSE; it returns TRUE exactly when all three succeeded.
C3_EnterOrder ==
    InEnter =>
        LET v == VmxOps(issued) IN
        /\ Len(v) <= 3
        /\ \A i \in 1..Len(v) : v[i].op = EnterOrder[i]
        /\ \A i \in 1..Len(v) : v[i].status # 0 => (i = Len(v) /\ pc = "done" /\ ret = FALSE)
        /\ pc = "done" =>
             /\ ret \in BOOLEAN
             /\ ret = TRUE <=> (Len(v) = 3 /\ \A i \in 1..3 : v[i].status = 0)

C3_Witness ==
    /\ InEnter /\ pc = "done" /\ ret = FALSE
    /\ VmxOps(issued) = <<Op("VMXON", 0), Op("VMCLEAR", 1)>>

\* C4: VmxEnterRootMode never rolls back.  From the VMXON step on it writes
\* neither CR0 nor CR4, never leaves VMX operation once entered and never
\* issues VMXOFF or clears CR4.VMXE; so a call that fails after a successful
\* VMXON returns with the processor still in VMX operation.
C4_NoRollback ==
    /\ [][(InEnter /\ pc \in {"vmxon", "vmclear", "vmptrld"}) =>
            /\ cr0' = cr0
            /\ cr4' = cr4
            /\ vmxOperation => vmxOperation'
            /\ \A i \in 1..Len(issued') : issued'[i].op \notin {"VMXOFF", "DISABLE_VMXE"}]_vars
    /\ [](InEnter /\ pc = "done" /\ ret = FALSE /\ Op("VMXON", 0) \in Range(issued)
            => vmxOperation)

C4_Witness ==
    /\ InEnter /\ pc = "done" /\ ret = FALSE
    /\ VmxOps(issued) = <<Op("VMXON", 0), Op("VMCLEAR", 0), Op("VMPTRLD", 2)>>
    /\ vmxOperation
    /\ VmxeBit \in cr4

\* C10 (as stated): whatever the capability masks, when VMXON, VMCLEAR or
\* VMPTRLD is about to be issued CR4.VMXE is set and CR0/CR4 satisfy the
\* fixed-bit constraints.
C10_AllMasks ==
    (InEnter /\ pc \in {"vmxon", "vmclear", "vmptrld"}) =>
        /\ VmxeBit \in cr4
        /\ \A reg \in {"cr0", "cr4"} : MustBeOneSet(reg) /\ MustBeZeroClear(reg)

\* C10 (amended): when VMXON, VMCLEAR or VMPTRLD is about to be issued,
\* CR4.VMXE is set exactly when IA32_VMX_CR4_FIXED1 allows it, and a register
\* whose must-be-1 mask lies within its may-be-1 mask satisfies the fixed-bit
\* constraints.
C10_GatedWhenAllowed ==
    (InEnter /\ pc \in {"vmxon", "vmclear", "vmptrld"}) =>
        /\ VmxeBit \in cr4 <=> VmxeBit \in msr["IA32_VMX_CR4_FIXED1"]
        /\ \A reg \in {"cr0", "cr4"} :
             Fixed0(reg) \subseteq Fixed1(reg) => (MustBeOneSet(reg) /\ MustBeZeroClear(reg))

C10_Witness ==
    /\ InEnter /\ pc = "vmptrld"
    /\ ControlRegister4 = {VmxeBit}
    /\ msr["IA32_VMX_CR4_FIXED0"] = {5}
    /\ msr["IA32_VMX_CR4_FIXED1"] = {5, VmxeBit}
    /\ cr4 = {5, VmxeBit}

\* -------------------------------------------- properties: VmxExitRootMode
\* C5 (as stated): every call of VmxExitRootMode attempts VMCLEAR and then
\* VMXOFF, also when VMCLEAR fails.
C5_BothAttempted ==
    (InExit /\ pc = "done") =>
        LET v == VmxOps(issued) IN
        Len(v) = 2 /\ v[1].op = "VMCLEAR" /\ v[2].op = "VMXOFF"

\* C5 (amended): every call of VmxExitRootMode attempts VMCLEAR first; VMXOFF
\* is attempted only after VMCLEAR and exactly when VMCLEAR succeeded: a call
\* in which VMCLEAR fails returns FALSE without attempting VMXOFF.
C5_ClearThenLeave ==
    InExit =>
        LET v == VmxOps(issued) IN
        /\ Len(v) \in {1, 2}
        /\ v[1].op = "VMCLEAR"
        /\ Len(v) = 2 => (v[2].op = "VMXOFF" /\ v[1].status = 0)
        /\ v[1].status # 0 => (pc = "done" /\ ret = FALSE /\ Len(v) = 1)
        /\ (pc = "done" /\ v[1].status = 0) => Len(v) = 2

C5_Witness ==
    /\ InExit /\ pc = "done" /\ ret = FALSE
    /\ issued = <<Op("VMCLEAR", 1)>>
    /\ vmxOperation

ExitOrder == <<"VMCLEAR", "VMXOFF", "DISABLE_VMXE">>

\* C9: a call of VmxExitRootMode whose VMCLEAR succeeds issues VMCLEAR, VMXOFF
\* and the clearing of CR4.VMXE in that order, once each, and returns TRUE;
\* it returns TRUE only with all three done, the processor out of VMX
\* operation and CR4.VMXE clear.
C9_ExitSuccess ==
    InExit =>
        /\ issued[1].status = 0 =>
             /\ Len(issued) <= 3
             /\ \A i \in 1..Len(issued) : issued[i].op = ExitOrder[i]
             /\ pc = "done" => (Len(issued) = 3 /\ ret = TRUE)
        /\ (pc = "done" /\ ret = TRUE) =>
             /\ Len(issued) = 3
             /\ \A i \in 1..3 : issued[i] = Op(ExitOrder[i], 0)
             /\ ~vmxOperation
             /\ VmxeBit \notin cr4

C9_Witness ==
    /\ returned = <<[routine |-> "VmxEnterRootMode", ret |-> TRUE],
                    [routine |-> "VmxExitRootMode", ret |-> TRUE]>>
    /\ pc = "done"
    /\ ~vmxOperation
    /\ VmxeBit \notin cr4
    /\ VmxeBit \in msr["IA32_VMX_CR4_FIXED1"]

\* ------------------------------- properties: segment descriptor translation
SegDone == routine = "VmxGetSegmentDescriptorFromSelector" /\ pc = "done"

SegClassified == routine = "VmxGetSegmentDescriptorFromSelector" /\ pc = "index"

C6_WitnessLocalTable ==
    /\ SegDone
    /\ SelectorTable(segIn.SegmentSelector) = 1
    /\ VmxSegmentDescriptor.AccessRights.Unusable = 0

\* C7: with ClearRPL the output selector has bits 0-1 zero and the input's
\* index and table-indicator bits; without it the output selector is the
\* input selector.  The unusable marking is decided on the selector as
\* passed, before its RPL bits are cleared, and the descriptor read is the
\* one at the input selector's index.
C7_SelectorRpl ==
    /\ SegClassified =>
         (VmxSegmentDescriptor.AccessRights.Unusable = 1
            <=> (segIn.SegmentSelector = 0 \/ (segIn.SegmentSelector \div 4) % 2 # 0))
    /\ SegDone =>
         LET in  == segIn.SegmentSelector
             out == VmxSegmentDescriptor.Selector
         IN
         /\ segIn.ClearRPL  => (out % 4 = 0 /\ out \div 4 = in \div 4)
         /\ ~segIn.ClearRPL => out = in
         /\ VmxSegmentDescriptor.AccessRights.Type = GdtRegister[in \div 8].Type
         /\ VmxSegmentDescriptor.AccessRights.DescriptorPrivilegeLevel
                = GdtRegister[in \div 8].DescriptorPrivilegeLevel

C7_Witness ==
    /\ SegDone
    /\ segIn.ClearRPL
    /\ segIn.SegmentSelector = 15
    /\ VmxSegmentDescriptor.Selector = 12

C7_WitnessClassified ==
    /\ SegClassified
    /\ segIn.ClearRPL
    /\ segIn.SegmentSelector = 3
    /\ VmxSegmentDescriptor.AccessRights.Unusable = 0

\* C8: the output base address is BaseAddressLow in bits 0-15,
\* BaseAddressMiddle in bits 16-23 and the low eight bits of BaseAddressUpper in
\* bits 24-31, with no bit at or above 32; low 0x1234, middle 0x56, upper 0x78
\* give 0x78561234.
C8_BaseAddress ==
    SegDone =>
        LET d    == GdtRegister[SelectorIndex(segIn.SegmentSelector)]
            base == VmxSegmentDescriptor.BaseAddress
        IN
        /\ \A b \in 0..15 : b \in base <=> (d.BaseAddressLow \div (2 ^ b)) % 2 = 1
        /\ \A b \in 0..7 : (16 + b) \in base <=> (d.BaseAddressMiddle \div (2 ^ b)) % 2 = 1
        /\ \A b \in 0..7 : (24 + b) \in base <=> (d.BaseAddressUpper \div (2 ^ b)) % 2 = 1
        /\ \A b \in base : b < 32
        /\ (d.BaseAddressLow = 4660 /\ d.BaseAddressMiddle = 86 /\ d.BaseAddressUpper = 120)
              => ValueOf(base) = 30806 * 65536 + 4660

C8_Witness ==
    /\ SegDone
    /\ segIn.signedInt
    /\ GdtRegister[SelectorIndex(segIn.SegmentSelector)].BaseAddressUpper = 128
    /\ GdtRegister[SelectorIndex(segIn.SegmentSelector)].BaseAddressLow = 4660
    /\ 31 \in VmxSegmentDescriptor.BaseAddress
    /\ 32 \notin VmxSegmentDescriptor.BaseAddress

C8_WitnessExample ==
    /\ SegDone
    /\ GdtRegister[SelectorIndex(segIn.SegmentSelector)].BaseAddressLow = 4660
    /\ GdtRegister[SelectorIndex(segIn.SegmentSelector)].BaseAddressMiddle = 86
    /\ GdtRegister[SelectorIndex(segIn.SegmentSelector)].BaseAddressUpper = 120
    /\ ValueOf(VmxSegmentDescriptor.BaseAddress) = 30806 * 65536 + 4660

====
